---- MODULE Spec2Model ----
(***************************************************************************)
(* Model of calculateMaxPain (src/calculateMaxPain.js).                    *)
(*                                                                         *)
(* A JavaScript value that may be absent is modelled as a sequence:        *)
(* <<>> is undefined (the property is missing from the sheet row) and      *)
(* <<n>> is the number n.  A Map or Set is the sequence of its entries in  *)
(* insertion order, as the iteration order of a JavaScript Map/Set is.     *)
(* One call of calculateMaxPain is one behaviour: Init picks the two       *)
(* argument lists, the actions are the consecutive blocks of the function. *)
(***************************************************************************)
EXTENDS Integers, Sequences, FiniteSets

VARIABLES pc, callData, putData, callStrikeMap, putStrikeMap,
          allStrikesData, commonStrikes, painPoints, result, error

vars == <<pc, callData, putData, callStrikeMap, putStrikeMap,
          allStrikesData, commonStrikes, painPoints, result, error>>

\* Longest argument list explored on each side.
MaxLen == 2

undefined == <<>>

Num(n) == <<n>>

IsNum(v) == v # undefined

\* Sheet rows the call list is drawn from (property missing = undefined).
CallRecords ==
  { [Strike |-> undefined, TotalVolume |-> Num(4), AtClose |-> Num(3), Change |-> Num(1)],
    [Strike |-> Num(2999), TotalVolume |-> Num(2), AtClose |-> Num(1), Change |-> undefined],
    [Strike |-> Num(3000), TotalVolume |-> Num(1), AtClose |-> Num(1), Change |-> Num(-1)],
    [Strike |-> Num(3000), TotalVolume |-> undefined, AtClose |-> Num(2), Change |-> Num(2)],
    [Strike |-> Num(4000), TotalVolume |-> Num(3), AtClose |-> undefined, Change |-> Num(0)],
    [Strike |-> Num(4001), TotalVolume |-> Num(1), AtClose |-> Num(2), Change |-> Num(1)] }

\* Sheet rows the put list is drawn from.
PutRecords ==
  { [Strike |-> undefined, TotalVolume |-> Num(1), AtClose |-> Num(2), Change |-> Num(3)],
    [Strike |-> Num(2999), TotalVolume |-> Num(5), AtClose |-> Num(2), Change |-> Num(-2)],
    [Strike |-> Num(3000), TotalVolume |-> Num(2), AtClose |-> undefined, Change |-> undefined],
    [Strike |-> Num(4000), TotalVolume |-> Num(6), AtClose |-> Num(1), Change |-> Num(1)],
    [Strike |-> Num(4000), TotalVolume |-> undefined, AtClose |-> Num(2), Change |-> Num(0)],
    [Strike |-> Num(4001), TotalVolume |-> Num(7), AtClose |-> Num(1), Change |-> Num(4)] }

SeqsUpTo(S, n) == UNION { [1..k -> S] : k \in 0..n }

\* ------------------------------------------------------------------------
\* JavaScript primitives used by the function

\* v || 0 : undefined and 0 are falsy
OrZero(v) == IF v = undefined THEN 0 ELSE IF v[1] = 0 THEN 0 ELSE v[1]

\* a < b on numbers-or-undefined: any comparison with undefined (NaN) is false
Lt(a, b) == IsNum(a) /\ IsNum(b) /\ a[1] < b[1]

\* a >= b and a <= b, likewise false when an operand is undefined
Ge(a, b) == IsNum(a) /\ IsNum(b) /\ a[1] >= b[1]

Le(a, b) == IsNum(a) /\ IsNum(b) /\ a[1] <= b[1]

\* Map.prototype.has / get / keys
MapHas(m, k) == \E i \in 1..Len(m) : m[i][1] = k

MapGet(m, k) == m[CHOOSE i \in 1..Len(m) : m[i][1] = k][2]

\* variant of set that leaves an existing entry alone
MapSetKeepFirst(m, k, v) ==
  IF MapHas(m, k) THEN m ELSE Append(m, <<k, v>>)

\* Map.prototype.set: an existing key keeps its position and takes the new value
MapSet(m, k, v) ==
  IF MapHas(m, k)
    THEN [i \in 1..Len(m) |-> IF m[i][1] = k THEN <<k, v>> ELSE m[i]]
    ELSE Append(m, <<k, v>>)

MapKeys(m) == [i \in 1..Len(m) |-> m[i][1]]

\* Set.prototype.add on an insertion-ordered set
SetAdd(s, k) == IF \E i \in 1..Len(s) : s[i] = k THEN s ELSE Append(s, k)

RECURSIVE SetAddAll(_, _)
SetAddAll(s, ks) ==
  IF ks = <<>> THEN s ELSE SetAddAll(SetAdd(s, Head(ks)), Tail(ks))

\* for (const item of data) map.set(item.Strike, item)
RECURSIVE FillStrikeMap(_, _)
FillStrikeMap(m, data) ==
  IF data = <<>> THEN m
  ELSE FillStrikeMap(MapSet(m, Head(data).Strike, Head(data)), Tail(data))

keyMap == [volume |-> "TotalVolume", oi |-> "AtClose", change |-> "Change"]

\* (a, b) => a - b, with NaN (an undefined operand) read by sort as +0
CompareStrike(a, b) == IF IsNum(a) /\ IsNum(b) THEN a[1] - b[1] ELSE 0

\* Array.prototype.sort with a comparator, as a stable insertion sort
RECURSIVE InsertByStrike(_, _)
InsertByStrike(s, x) ==
  IF s = <<>> THEN <<x>>
  ELSE IF CompareStrike(s[Len(s)].Strike, x.Strike) > 0
    THEN Append(InsertByStrike(SubSeq(s, 1, Len(s) - 1), x), s[Len(s)])
    ELSE Append(s, x)

RECURSIVE SortByStrike(_)
SortByStrike(s) ==
  IF s = <<>> THEN <<>>
  ELSE InsertByStrike(SortByStrike(SubSeq(s, 1, Len(s) - 1)), s[Len(s)])

\* [...allStrikes].sort((a, b) => a - b) on bare values: sort moves undefined
\* elements to the end without calling the comparator
RECURSIVE InsertValue(_, _)
InsertValue(s, x) ==
  IF s = <<>> THEN <<x>>
  ELSE IF CompareStrike(s[Len(s)], x) > 0
    THEN Append(InsertValue(SubSeq(s, 1, Len(s) - 1), x), s[Len(s)])
    ELSE Append(s, x)

RECURSIVE SortNumbers(_)
SortNumbers(s) ==
  IF s = <<>> THEN <<>>
  ELSE InsertValue(SortNumbers(SubSeq(s, 1, Len(s) - 1)), s[Len(s)])

SortValues(s) ==
  SortNumbers(SelectSeq(s, IsNum)) \o SelectSeq(s, LAMBDA v : v = undefined)

\* ------------------------------------------------------------------------
\* Blocks of calculateMaxPain

\* variant that collects the call keys only
AllStrikesCallKeysOnly(cm, pm) == SetAddAll(<<>>, MapKeys(cm))

\* const allStrikes = new Set(); keys of the call map, then of the put map
AllStrikes(cm, pm) == SetAddAll(SetAddAll(<<>>, MapKeys(cm)), MapKeys(pm))

\* one field of a merged row: map.has(strike) ? map.get(strike)[key] || 0 : 0
SideField(m, strike, key) ==
  IF MapHas(m, strike) THEN OrZero(MapGet(m, strike)[key]) ELSE 0

\* variant that fills an absent call side from the put record
StrikeRowCrossFilled(cm, pm, strike) ==
  [Strike      |-> strike,
   Call_Volume |-> IF MapHas(cm, strike) THEN SideField(cm, strike, keyMap.volume)
                   ELSE SideField(pm, strike, keyMap.volume),
   Call_OI     |-> IF MapHas(cm, strike) THEN SideField(cm, strike, keyMap.oi)
                   ELSE SideField(pm, strike, keyMap.oi),
   Call_Change |-> IF MapHas(cm, strike) THEN SideField(cm, strike, keyMap.change)
                   ELSE SideField(pm, strike, keyMap.change),
   Put_Volume  |-> SideField(pm, strike, keyMap.volume),
   Put_OI      |-> SideField(pm, strike, keyMap.oi),
   Put_Change  |-> SideField(pm, strike, keyMap.change)]

\* the object pushed onto allStrikesData for one strike
StrikeRow(cm, pm, strike) ==
  [Strike      |-> strike,
   Call_Volume |-> SideField(cm, strike, keyMap.volume),
   Call_OI     |-> SideField(cm, strike, keyMap.oi),
   Call_Change |-> SideField(cm, strike, keyMap.change),
   Put_Volume  |-> SideField(pm, strike, keyMap.volume),
   Put_OI      |-> SideField(pm, strike, keyMap.oi),
   Put_Change  |-> SideField(pm, strike, keyMap.change)]

\* for (const strike of [...allStrikes].sort(...)) allStrikesData.push({...})
MergeRows(cm, pm) ==
  LET sorted == SortValues(AllStrikes(cm, pm))
  IN  [i \in 1..Len(sorted) |-> StrikeRow(cm, pm, sorted[i])]

\* variant with the upper bound excluded
InBandUpperExclusive(strike) == Ge(strike, Num(3000)) /\ Lt(strike, Num(4000))

\* strike >= 3000 && strike <= 4000
InBand(strike) == Ge(strike, Num(3000)) /\ Le(strike, Num(4000))

\* variant that walks every merged strike instead of the call map
DisplayRowsOverAllStrikes(cm, pm) ==
  LET keys == SelectSeq(AllStrikes(cm, pm), InBand)
  IN  [i \in 1..Len(keys) |-> StrikeRow(cm, pm, keys[i])]

\* for (const [strike, callItem] of callStrikeMap) if (in band) commonStrikes.push
DisplayRows(cm, pm) ==
  LET keys == SelectSeq(MapKeys(cm), InBand)
  IN  [i \in 1..Len(keys) |->
        [Strike      |-> keys[i],
         Call_Volume |-> OrZero(MapGet(cm, keys[i])[keyMap.volume]),
         Call_OI     |-> OrZero(MapGet(cm, keys[i])[keyMap.oi]),
         Call_Change |-> OrZero(MapGet(cm, keys[i])[keyMap.change]),
         Put_Volume  |-> SideField(pm, keys[i], keyMap.volume),
         Put_OI      |-> SideField(pm, keys[i], keyMap.oi),
         Put_Change  |-> SideField(pm, keys[i], keyMap.change)]]

\* inner loop over calls: if (callData.Strike < expiryPrice) totalPain += ...
RECURSIVE CallPain(_, _, _)
CallPain(rows, expiryPrice, n) ==
  IF n = 0 THEN 0
  ELSE CallPain(rows, expiryPrice, n - 1)
       + (IF Lt(rows[n].Strike, expiryPrice)
            THEN (expiryPrice[1] - rows[n].Strike[1]) * rows[n].Call_OI
            ELSE 0)

\* inner loop over puts: if (putData.Strike > expiryPrice) totalPain += ...
RECURSIVE PutPain(_, _, _)
PutPain(rows, expiryPrice, n) ==
  IF n = 0 THEN 0
  ELSE PutPain(rows, expiryPrice, n - 1)
       + (IF Lt(expiryPrice, rows[n].Strike)
            THEN (rows[n].Strike[1] - expiryPrice[1]) * rows[n].Put_OI
            ELSE 0)

\* variant that leaves the put side out
TotalPainCallOnly(rows, expiryPrice) == CallPain(rows, expiryPrice, Len(rows))

\* totalPain after both inner loops
TotalPain(rows, expiryPrice) ==
  CallPain(rows, expiryPrice, Len(rows)) + PutPain(rows, expiryPrice, Len(rows))

\* outer loop: one pain point per row, in row order
PainPointsOf(rows) ==
  [i \in 1..Len(rows) |->
     [strike |-> rows[i].Strike, pain |-> TotalPain(rows, rows[i].Strike)]]

\* variant of the fold that also replaces the minimum on equal pain
RECURSIVE ReduceMinLast(_, _, _)
ReduceMinLast(points, min, i) ==
  IF i > Len(points) THEN min
  ELSE ReduceMinLast(points,
                     IF points[i].pain <= min.pain THEN points[i] ELSE min, i + 1)

\* painPoints.reduce((min, point) => point.pain < min.pain ? point : min, painPoints[0])
RECURSIVE ReduceMin(_, _, _)
ReduceMin(points, min, i) ==
  IF i > Len(points) THEN min
  ELSE ReduceMin(points,
                 IF points[i].pain < min.pain THEN points[i] ELSE min, i + 1)

\* sortedData.reduce((sum, item) => sum + (item.Call_OI || 0), 0)
RECURSIVE SumCallOI(_, _)
SumCallOI(rows, n) ==
  IF n = 0 THEN 0 ELSE SumCallOI(rows, n - 1) + rows[n].Call_OI

\* variant that adds up the call column
RECURSIVE SumPutOIFromCalls(_, _)
SumPutOIFromCalls(rows, n) ==
  IF n = 0 THEN 0 ELSE SumPutOIFromCalls(rows, n - 1) + rows[n].Call_OI

\* sortedData.reduce((sum, item) => sum + (item.Put_OI || 0), 0)
RECURSIVE SumPutOI(_, _)
SumPutOI(rows, n) ==
  IF n = 0 THEN 0 ELSE SumPutOI(rows, n - 1) + rows[n].Put_OI

\* for (const item of sortedData) { const oi = ...; totalOI += oi }
RECURSIVE SumTotalOI(_, _)
SumTotalOI(rows, n) ==
  IF n = 0 THEN 0
  ELSE SumTotalOI(rows, n - 1) + (rows[n].Call_OI + rows[n].Put_OI)

\* Number(x) applied to a number
Number(x) == x

\* ------------------------------------------------------------------------
\* State machine

Init ==
  /\ pc = "validate"
  /\ callData \in SeqsUpTo(CallRecords, MaxLen)
  /\ putData \in SeqsUpTo(PutRecords, MaxLen)
  /\ callStrikeMap = <<>>
  /\ putStrikeMap = <<>>
  /\ allStrikesData = <<>>
  /\ commonStrikes = <<>>
  /\ painPoints = <<>>
  /\ result = <<>>
  /\ error = ""

\* variant that tests the call list only
ValidateCallsOnly ==
  /\ pc = "validate"
  /\ IF Len(callData) = 0
       THEN pc' = "thrown" /\ error' = "NoCallData"
       ELSE pc' = "maps" /\ error' = error
  /\ UNCHANGED <<callData, putData, callStrikeMap, putStrikeMap,
                 allStrikesData, commonStrikes, painPoints, result>>

\* lines 46-52
Validate ==
  /\ pc = "validate"
  /\ IF Len(callData) = 0
       THEN pc' = "thrown" /\ error' = "NoCallData"
       ELSE IF Len(putData) = 0
         THEN pc' = "thrown" /\ error' = "NoPutData"
         ELSE pc' = "maps" /\ error' = error
  /\ UNCHANGED <<callData, putData, callStrikeMap, putStrikeMap,
                 allStrikesData, commonStrikes, painPoints, result>>

\* lines 55-66
FillStrikeMaps ==
  /\ pc = "maps"
  /\ callStrikeMap' = FillStrikeMap(<<>>, callData)
  /\ putStrikeMap' = FillStrikeMap(<<>>, putData)
  /\ pc' = "merge"
  /\ UNCHANGED <<callData, putData, allStrikesData, commonStrikes,
                 painPoints, result, error>>

\* lines 76-96
BuildAllStrikesData ==
  /\ pc = "merge"
  /\ allStrikesData' = MergeRows(callStrikeMap, putStrikeMap)
  /\ pc' = "display"
  /\ UNCHANGED <<callData, putData, callStrikeMap, putStrikeMap,
                 commonStrikes, painPoints, result, error>>

\* lines 98-113
BuildCommonStrikes ==
  /\ pc = "display"
  /\ commonStrikes' = DisplayRows(callStrikeMap, putStrikeMap)
  /\ pc' = "sort"
  /\ UNCHANGED <<callData, putData, callStrikeMap, putStrikeMap,
                 allStrikesData, painPoints, result, error>>

\* lines 115-122: the no-strikes check, then both in-place sorts
CheckAndSort ==
  /\ pc = "sort"
  /\ IF Len(allStrikesData) = 0
       THEN /\ pc' = "thrown"
            /\ error' = "NoStrikes"
            /\ UNCHANGED <<commonStrikes, allStrikesData>>
       ELSE /\ commonStrikes' = SortByStrike(commonStrikes)
            /\ allStrikesData' = SortByStrike(allStrikesData)
            /\ pc' = "pain"
            /\ error' = error
  /\ UNCHANGED <<callData, putData, callStrikeMap, putStrikeMap,
                 painPoints, result>>

\* lines 125-163
ComputePainPoints ==
  /\ pc = "pain"
  /\ painPoints' = PainPointsOf(allStrikesData)
  /\ IF Len(painPoints') = 0
       THEN pc' = "thrown" /\ error' = "NoPainPoints"
       ELSE pc' = "select" /\ error' = error
  /\ UNCHANGED <<callData, putData, callStrikeMap, putStrikeMap,
                 allStrikesData, commonStrikes, result>>

\* lines 165-196
ReturnResult ==
  /\ pc = "select"
  /\ LET maxPainPoint == ReduceMin(painPoints, painPoints[1], 1)
         totalCallOI == SumCallOI(allStrikesData, Len(allStrikesData))
         totalPutOI == SumPutOI(allStrikesData, Len(allStrikesData))
         totalOI == SumTotalOI(allStrikesData, Len(allStrikesData))
     IN  result' = << [maxPain |-> [strike |-> maxPainPoint.strike,
                                    pain |-> Number(maxPainPoint.pain)],
                       painPoints |-> painPoints,
                       summary |-> [totalCallOI |-> totalCallOI,
                                    totalPutOI |-> totalPutOI,
                                    totalOI |-> totalOI,
                                    totalCommonStrikes |-> Len(commonStrikes)],
                       commonStrikes |-> commonStrikes] >>
  /\ pc' = "done"
  /\ UNCHANGED <<callData, putData, callStrikeMap, putStrikeMap,
                 allStrikesData, commonStrikes, painPoints, error>>

Next ==
  \/ Validate
  \/ FillStrikeMaps
  \/ BuildAllStrikesData
  \/ BuildCommonStrikes
  \/ CheckAndSort
  \/ ComputePainPoints
  \/ ReturnResult

Spec == Init /\ [][Next]_vars

\* ------------------------------------------------------------------------
\* Vocabulary of the properties

\* sum of f over the index set S
RECURSIVE SumFn(_, _)
SumFn(f, S) ==
  IF S = {} THEN 0
  ELSE LET x == CHOOSE y \in S : TRUE IN f[x] + SumFn(f, S \ {x})

StrikesOf(data) == { data[i].Strike : i \in 1..Len(data) }

CallStrikes == StrikesOf(callData)

PutStrikes == StrikesOf(putData)

\* the record of a side that comes last in input order at strike k
LastRecord(data, k) ==
  data[CHOOSE i \in 1..Len(data) :
         /\ data[i].Strike = k
         /\ \A j \in (i + 1)..Len(data) : data[j].Strike # k]

HasDuplicateStrike(data) ==
  \E i, j \in 1..Len(data) : i < j /\ data[i].Strike = data[j].Strike

\* falsy values read as 0, written without the code's operator
FieldValue(v) == IF v = <<>> THEN 0 ELSE v[1]

Merged == pc \in {"display", "sort", "pain", "select", "done"}

Returned == pc = "done"

RowIdx == 1..Len(allStrikesData)

\* the display band of the code, bounds included
BandStrikes == { Num(n) : n \in 3000..4000 }

\* ------------------------------------------------------------------------
\* C1: the pain reported for each candidate expiry strike E is the sum over
\* merged rows struck strictly below E of (E - strike) * callOI plus the sum
\* over merged rows struck strictly above E of (strike - E) * putOI; a row
\* struck exactly at E adds nothing.
C1_PainFormula ==
  Returned =>
    LET pts == result[1].painPoints
        rows == allStrikesData
    IN  /\ Len(pts) = Len(rows)
        /\ \A i \in RowIdx :
             /\ pts[i].strike = rows[i].Strike
             /\ IsNum(pts[i].strike) =>
                  LET E == pts[i].strike[1]
                      below == { j \in RowIdx : IsNum(rows[j].Strike) /\ rows[j].Strike[1] < E }
                      above == { j \in RowIdx : IsNum(rows[j].Strike) /\ rows[j].Strike[1] > E }
                  IN  pts[i].pain =
                        SumFn([j \in below |-> (E - rows[j].Strike[1]) * rows[j].Call_OI], below)
                        + SumFn([j \in above |-> (rows[j].Strike[1] - E) * rows[j].Put_OI], above)

C1_Witness ==
  /\ Returned
  /\ \E i, j, k \in RowIdx :
       /\ Lt(allStrikesData[j].Strike, allStrikesData[i].Strike)
       /\ Lt(allStrikesData[i].Strike, allStrikesData[k].Strike)
       /\ allStrikesData[j].Call_OI > 0
       /\ allStrikesData[k].Put_OI > 0
       /\ allStrikesData[i].Call_OI > 0
       /\ result[1].painPoints[i].pain > 0

C3_UnionCompleteness ==
  /\ Merged =>
       /\ { allStrikesData[i].Strike : i \in RowIdx } = CallStrikes \cup PutStrikes
       /\ Len(allStrikesData) = Cardinality(CallStrikes \cup PutStrikes)
  /\ Returned =>
       LET pts == result[1].painPoints
       IN  /\ { pts[i].strike : i \in 1..Len(pts) } = CallStrikes \cup PutStrikes
           /\ Len(pts) = Cardinality(CallStrikes \cup PutStrikes)
           /\ \A i, j \in 1..Len(pts) :
                (i < j /\ IsNum(pts[i].strike) /\ IsNum(pts[j].strike)) =>
                  pts[i].strike[1] < pts[j].strike[1]

C3_Witness ==
  /\ Returned
  /\ HasDuplicateStrike(callData)
  /\ CallStrikes \cap PutStrikes # {}
  /\ PutStrikes \ CallStrikes # {}
  /\ Len(putData) = 2
  /\ Lt(putData[2].Strike, putData[1].Strike)
  /\ Len(result[1].painPoints) = 2

\* C4: with an empty call list or an empty put list the computation throws
\* and produces no result, no pain points, no merged or display rows.
C4_EmptyInputFails ==
  (Len(callData) = 0 \/ Len(putData) = 0) =>
    /\ pc \in {"validate", "thrown"}
    /\ pc = "thrown" => error \in {"NoCallData", "NoPutData"}
    /\ result = <<>>
    /\ painPoints = <<>>
    /\ allStrikesData = <<>>
    /\ commonStrikes = <<>>

C4_Witness ==
  /\ pc = "thrown"
  /\ Len(callData) > 0
  /\ Len(putData) = 0
  /\ error = "NoPutData"
  /\ result = <<>>

\* C5: a strike present on one side only has the other side's volume, open
\* interest and change equal to 0 in its merged row, so it adds nothing to
\* that side's losses or to that side's open-interest total.
C5_ZeroFill ==
  /\ Merged =>
       \A i \in RowIdx :
         LET r == allStrikesData[i]
         IN  /\ r.Strike \notin CallStrikes =>
                  (r.Call_Volume = 0 /\ r.Call_OI = 0 /\ r.Call_Change = 0)
             /\ r.Strike \notin PutStrikes =>
                  (r.Put_Volume = 0 /\ r.Put_OI = 0 /\ r.Put_Change = 0)
  /\ Returned =>
       LET rows == allStrikesData
           withCall == { i \in RowIdx : rows[i].Strike \in CallStrikes }
           withPut == { i \in RowIdx : rows[i].Strike \in PutStrikes }
       IN  /\ result[1].summary.totalCallOI =
                SumFn([i \in withCall |-> rows[i].Call_OI], withCall)
           /\ result[1].summary.totalPutOI =
                SumFn([i \in withPut |-> rows[i].Put_OI], withPut)

C5_Witness ==
  /\ Returned
  /\ \E i, j \in RowIdx :
       /\ allStrikesData[i].Strike \in PutStrikes \ CallStrikes
       /\ allStrikesData[i].Put_OI > 0
       /\ allStrikesData[i].Put_Volume > 0
       /\ allStrikesData[j].Strike \in CallStrikes \ PutStrikes
       /\ allStrikesData[j].Call_OI > 0
       /\ allStrikesData[j].Call_Volume > 0

\* C6: summary.totalCallOI, totalPutOI and totalOI are the sums over the
\* merged rows of callOI, putOI and callOI + putOI, so that
\* totalOI = totalCallOI + totalPutOI.
C6_SummaryTotals ==
  Returned =>
    LET rows == allStrikesData
        sm == result[1].summary
    IN  /\ sm.totalCallOI = SumFn([i \in RowIdx |-> rows[i].Call_OI], RowIdx)
        /\ sm.totalPutOI = SumFn([i \in RowIdx |-> rows[i].Put_OI], RowIdx)
        /\ sm.totalOI = SumFn([i \in RowIdx |-> rows[i].Call_OI + rows[i].Put_OI], RowIdx)
        /\ sm.totalOI = sm.totalCallOI + sm.totalPutOI

C6_Witness ==
  /\ Returned
  /\ Len(allStrikesData) >= 3
  /\ result[1].summary.totalCallOI > 0
  /\ result[1].summary.totalPutOI > 0
  /\ result[1].summary.totalCallOI # result[1].summary.totalPutOI

\* C7: the display rows are exactly the strikes with a call-side record
\* inside 3000..4000 (bounds included), one row each, ascending by strike,
\* put fields from the put lookup or 0; the summary count is their number.
C7_DisplayRows ==
  Returned =>
    LET ds == result[1].commonStrikes
        want == CallStrikes \cap BandStrikes
    IN  /\ { ds[i].Strike : i \in 1..Len(ds) } = want
        /\ Len(ds) = Cardinality(want)
        /\ \A i, j \in 1..Len(ds) : i < j => ds[i].Strike[1] < ds[j].Strike[1]
        /\ \A i \in 1..Len(ds) :
             IF ds[i].Strike \in PutStrikes
               THEN LET p == LastRecord(putData, ds[i].Strike)
                    IN  /\ ds[i].Put_Volume = FieldValue(p.TotalVolume)
                        /\ ds[i].Put_OI = FieldValue(p.AtClose)
                        /\ ds[i].Put_Change = FieldValue(p.Change)
               ELSE ds[i].Put_Volume = 0 /\ ds[i].Put_OI = 0 /\ ds[i].Put_Change = 0
        /\ result[1].summary.totalCommonStrikes = Len(ds)

C7_Witness ==
  /\ Returned
  /\ Len(callData) = 2
  /\ callData[1].Strike = Num(4000)
  /\ callData[2].Strike = Num(3000)
  /\ Num(4000) \in PutStrikes
  /\ Num(3000) \notin PutStrikes
  /\ Len(result[1].commonStrikes) = 2
  /\ result[1].commonStrikes[2].Put_OI > 0

\* C8: when a strike occurs more than once in one side's list nothing is
\* thrown and the merged row and the display row carry the fields of the
\* record that comes last in that list; earlier ones count for nothing in
\* the open-interest totals.
C8_LastWriteWins ==
  /\ (Len(callData) > 0 /\ Len(putData) > 0) => pc # "thrown"
  /\ Merged =>
       \A i \in RowIdx :
         LET r == allStrikesData[i]
         IN  /\ r.Strike \in CallStrikes =>
                  LET c == LastRecord(callData, r.Strike)
                  IN  /\ r.Call_Volume = FieldValue(c.TotalVolume)
                      /\ r.Call_OI = FieldValue(c.AtClose)
                      /\ r.Call_Change = FieldValue(c.Change)
             /\ r.Strike \in PutStrikes =>
                  LET p == LastRecord(putData, r.Strike)
                  IN  /\ r.Put_Volume = FieldValue(p.TotalVolume)
                      /\ r.Put_OI = FieldValue(p.AtClose)
                      /\ r.Put_Change = FieldValue(p.Change)
  /\ Returned =>
       /\ \A i \in 1..Len(result[1].commonStrikes) :
            LET d == result[1].commonStrikes[i]
                c == LastRecord(callData, d.Strike)
            IN  /\ d.Call_Volume = FieldValue(c.TotalVolume)
                /\ d.Call_OI = FieldValue(c.AtClose)
                /\ d.Call_Change = FieldValue(c.Change)
       /\ result[1].summary.totalCallOI =
            SumFn([k \in CallStrikes |-> FieldValue(LastRecord(callData, k).AtClose)],
                  CallStrikes)
       /\ result[1].summary.totalPutOI =
            SumFn([k \in PutStrikes |-> FieldValue(LastRecord(putData, k).AtClose)],
                  PutStrikes)

C8_Witness ==
  /\ Returned
  /\ Len(callData) = 2
  /\ callData[1].Strike = callData[2].Strike
  /\ callData[1].AtClose # callData[2].AtClose
  /\ Len(result[1].commonStrikes) = 1
  /\ result[1].commonStrikes[1].Call_OI = FieldValue(callData[2].AtClose)
  /\ result[1].summary.totalCallOI = FieldValue(callData[2].AtClose)

\* C9: with both lists non-empty and no record carrying a strike, the call
\* ends with the no-strikes error and no result.
C9_NoStrikesError ==
  ( /\ Len(callData) > 0
    /\ Len(putData) > 0
    /\ CallStrikes \cup PutStrikes = {undefined}
    /\ pc \in {"done", "thrown"} )
  => (pc = "thrown" /\ error = "NoStrikes" /\ result = <<>>)

\* C10 as stated: a strike inside the display band that has a put record but
\* no call record is a row of the display rows, call fields 0 and put fields
\* from the put lookup.
C10_PutOnlyStrikeDisplayed ==
  Returned =>
    \A k \in (PutStrikes \ CallStrikes) \cap BandStrikes :
      \E i \in 1..Len(result[1].commonStrikes) :
        LET d == result[1].commonStrikes[i]
            p == LastRecord(putData, k)
        IN  /\ d.Strike = k
            /\ d.Call_Volume = 0 /\ d.Call_OI = 0 /\ d.Call_Change = 0
            /\ d.Put_Volume = FieldValue(p.TotalVolume)
            /\ d.Put_OI = FieldValue(p.AtClose)
            /\ d.Put_Change = FieldValue(p.Change)

\* C10 amended: a strike inside the display band that has a put record but
\* no call record is a row of painPoints but is not a row of the display
\* rows.
C10_PutOnlyStrikeNotDisplayed ==
  Returned =>
    \A k \in (PutStrikes \ CallStrikes) \cap BandStrikes :
      /\ \A i \in 1..Len(result[1].commonStrikes) : result[1].commonStrikes[i].Strike # k
      /\ \E i \in 1..Len(result[1].painPoints) : result[1].painPoints[i].strike = k

C10_Witness ==
  /\ Returned
  /\ (PutStrikes \ CallStrikes) \cap BandStrikes # {}
  /\ CallStrikes \cap BandStrikes # {}
  /\ Len(result[1].commonStrikes) = 1

====
